---- MODULE Spec2Model ----
(***************************************************************************)
(* A model of app.py, the Streamlit script of the YouTube re-indexation    *)
(* bot.  One execution of the script (a "run") is a walk through the       *)
(* stages of lines 114-168; every operator interaction starts a new run    *)
(* from the top of the script.                                             *)
(*                                                                         *)
(* Python values are records tagged by `kind`.  A string is a sequence of  *)
(* one-character strings (URLs, tag lists) or of atomic words (titles,     *)
(* transcripts, headlines).  Sentiment polarities are integers in          *)
(* hundredths: 0.2 is 20.                                                  *)
(***************************************************************************)
EXTENDS Integers, Sequences, FiniteSets, TLC

VARIABLES
    video_url,          \* line 112: the URL text input
    video_id,           \* line 115
    video_metadata,     \* line 119
    video_transcript,   \* line 120
    news_titles,        \* line 132
    matching_news,      \* line 140
    ai_suggestions,     \* line 148
    new_title,          \* line 151
    new_description,    \* line 152
    new_tags,           \* line 153
    response,           \* line 156
    update_body,        \* lines 97-104: the body sent to videos().update
    reply,              \* what the last external call of the run returned
    calls,              \* the functions the run has invoked, in order
    status,             \* the terminal message the run has shown
    clicked,            \* whether this run was started by the update button
    offered,            \* whether the run has rendered the update form
    pc                  \* the position of the run in the script

vars == <<video_url, video_id, video_metadata, video_transcript, news_titles,
          matching_news, ai_suggestions, new_title, new_description, new_tags,
          response, update_body, reply, calls, status, clicked, offered, pc>>

----------------------------------------------------------------------------
(* Bounds of the model *)

MaxPieces == 4
MaxSegments == 2
MaxArticles == 6
RunMaxArticles == 2

(* Program constants *)

MaxNews == 5
Threshold == 20

----------------------------------------------------------------------------
(* Python values *)

Unbound == [kind |-> "unbound"]
None == [kind |-> "None"]
Absent == [kind |-> "absent"]
PyStr(s) == [kind |-> "str", s |-> s]
PyInt(n) == [kind |-> "int", n |-> n]
PyList(l) == [kind |-> "list", l |-> l]
PyDict(t, d, g) == [kind |-> "dict", d |-> [title |-> t, description |-> d, tags |-> g]]
Raise(e) == [kind |-> "raise", exc |-> e]

Keys == {"title", "description", "tags"}

Truthy(v) ==
    CASE v.kind = "str" -> v.s # <<>>
      [] v.kind = "int" -> v.n # 0
      [] v.kind = "list" -> v.l # <<>>
      [] v.kind = "dict" -> \E k \in Keys : v.d[k] # Absent
      [] OTHER -> FALSE

SeqsUpTo(S, n) == UNION {[1..k -> S] : k \in 0..n}

RECURSIVE Concat(_)
Concat(ss) == IF ss = <<>> THEN <<>> ELSE Head(ss) \o Concat(Tail(ss))

----------------------------------------------------------------------------
(* extract_video_id, lines 20-22 *)

Stop == {"&", "#"}

LookV == <<"v", "=">>
LookShort == <<"y", "o", "u", "t", "u", "ANY", "b", "e", "/">>

PatMatch(pe, c) == IF pe = "ANY" THEN c # "\n" ELSE pe = c

LookbehindAt(look, url, p) ==
    /\ p - Len(look) >= 1
    /\ \A k \in 1..Len(look) : PatMatch(look[k], url[p - Len(look) - 1 + k])

RECURSIVE Greedy(_, _)
Greedy(url, p) ==
    IF p > Len(url) \/ url[p] \in Stop THEN <<>>
    ELSE <<url[p]>> \o Greedy(url, p + 1)

RECURSIVE re_search(_, _, _)
re_search(look, url, p) ==
    IF p > Len(url) THEN None
    ELSE IF LookbehindAt(look, url, p) /\ url[p] \notin Stop
         THEN PyStr(Greedy(url, p))
         ELSE re_search(look, url, p + 1)

extract_video_id_short_first(url) ==
    LET m == re_search(LookShort, url, 1)
    IN IF m # None THEN m ELSE re_search(LookV, url, 1)

extract_video_id_any_slash(url) ==
    LET m == re_search(LookV, url, 1)
    IN IF m # None THEN m ELSE re_search(<<"/">>, url, 1)

extract_video_id(url) ==
    LET m == re_search(LookV, url, 1)
    IN IF m # None THEN m ELSE re_search(LookShort, url, 1)

UrlPieces ==
    { <<"v", "=">>,
      <<"y", "o", "u", "t", "u", ".", "b", "e", "/">>,
      <<"y", "o", "u", "t", "u", "x", "b", "e", "/">>,
      <<"&">>, <<"#">>, <<"a">>, <<"b">>, <<"v">> }

URLs == {Concat(ps) : ps \in SeqsUpTo(UrlPieces, MaxPieces)}

RunURLs ==
    { <<>>,
      <<"x", "/", "a">>,
      <<"?", "v", "=", "a", "&", "b">>,
      <<"y", "o", "u", "t", "u", ".", "b", "e", "/", "b">> }

----------------------------------------------------------------------------
(* The start of a run: the script is executed from the top, lines 110-114 *)

StartRun(url, click) ==
    /\ video_url' = url
    /\ clicked' = click
    /\ video_id' = Unbound
    /\ video_metadata' = Unbound
    /\ video_transcript' = Unbound
    /\ news_titles' = Unbound
    /\ matching_news' = Unbound
    /\ ai_suggestions' = Unbound
    /\ new_title' = Unbound
    /\ new_description' = Unbound
    /\ new_tags' = Unbound
    /\ response' = Unbound
    /\ update_body' = Unbound
    /\ reply' = Unbound
    /\ calls' = <<>>
    /\ status' = "none"
    /\ offered' = FALSE
    /\ pc' = "start"

Ended == pc \in {"idle", "done", "crashed"}

Init ==
    /\ video_url = <<>>
    /\ clicked = FALSE
    /\ video_id = Unbound
    /\ video_metadata = Unbound
    /\ video_transcript = Unbound
    /\ news_titles = Unbound
    /\ matching_news = Unbound
    /\ ai_suggestions = Unbound
    /\ new_title = Unbound
    /\ new_description = Unbound
    /\ new_tags = Unbound
    /\ response = Unbound
    /\ update_body = Unbound
    /\ reply = Unbound
    /\ calls = <<>>
    /\ status = "none"
    /\ offered = FALSE
    /\ pc = "idle"

Submit(urls) ==
    /\ Ended
    /\ \E url \in urls : url # video_url /\ StartRun(url, FALSE)

Crash(e) ==
    /\ status' = "UncaughtException"
    /\ pc' = "crashed"

Halt(s) ==
    /\ status' = s
    /\ pc' = "done"

(* lines 114-117, 167-168 *)
ExtractId ==
    /\ pc = "start"
    /\ IF video_url = <<>>
       THEN /\ pc' = "done"
            /\ UNCHANGED <<video_id, calls, status>>
       ELSE /\ video_id' = extract_video_id(video_url)
            /\ calls' = Append(calls, "extract_video_id")
            /\ IF Truthy(video_id')
               THEN pc' = "metadata" /\ UNCHANGED status
               ELSE Halt("InvalidURL")
    /\ UNCHANGED <<video_url, video_metadata, video_transcript, news_titles,
                   matching_news, ai_suggestions, new_title, new_description,
                   new_tags, response, update_body, reply, clicked, offered>>

----------------------------------------------------------------------------
(* get_video_metadata, lines 25-37 *)

get_video_metadata_no_empty_check(r) ==
    IF r.kind = "raise" THEN r
    ELSE IF r.items = Absent THEN None
    ELSE IF r.items.l = <<>> THEN Raise("IndexError")
    ELSE LET video_data == r.items.l[1]
         IN PyDict(video_data.title, video_data.description,
                   IF video_data.tags = Absent THEN PyList(<<>>) ELSE video_data.tags)

get_video_metadata(r) ==
    IF r.kind = "raise" THEN r
    ELSE IF r.items = Absent \/ ~Truthy(r.items) THEN None
    ELSE LET video_data == r.items.l[1]
         IN PyDict(video_data.title, video_data.description,
                   IF video_data.tags = Absent THEN PyList(<<>>) ELSE video_data.tags)

Snippet(g) == [title |-> PyStr(<<"T">>), description |-> PyStr(<<"D">>), tags |-> g]

ItemsReplies ==
    { Raise("HttpError"),
      [kind |-> "json", items |-> Absent],
      [kind |-> "json", items |-> PyList(<<>>)],
      [kind |-> "json", items |-> PyList(<<Snippet(Absent)>>)],
      [kind |-> "json", items |-> PyList(<<Snippet(PyList(<<PyStr(<<"x">>)>>))>>)] }

OneItemsReply == {[kind |-> "json", items |-> PyList(<<Snippet(Absent)>>)]}

(* line 119 *)
GetMetadata(replies) ==
    /\ pc = "metadata"
    /\ \E r \in replies :
          /\ reply' = r
          /\ calls' = Append(calls, "get_video_metadata")
          /\ LET m == get_video_metadata(r)
             IN IF m.kind = "raise"
                THEN Crash(m.exc) /\ UNCHANGED video_metadata
                ELSE video_metadata' = m /\ pc' = "transcript" /\ UNCHANGED status
    /\ UNCHANGED <<video_url, video_id, video_transcript, news_titles,
                   matching_news, ai_suggestions, new_title, new_description,
                   new_tags, response, update_body, clicked, offered>>

----------------------------------------------------------------------------
(* get_video_transcript, lines 40-46 *)

Placeholder == <<"Transcript not available.">>

RECURSIVE JoinStr(_, _)
JoinStr(sep, ss) ==
    IF ss = <<>> THEN <<>>
    ELSE IF Len(ss) = 1 THEN ss[1]
    ELSE ss[1] \o sep \o JoinStr(sep, Tail(ss))

get_video_transcript_no_space(r) ==
    IF r.kind = "raise" THEN PyStr(Placeholder)
    ELSE IF \E i \in 1..Len(r.segs) : r.segs[i].text = Absent
         THEN PyStr(Placeholder)
         ELSE PyStr(JoinStr(<<>>, [i \in 1..Len(r.segs) |-> r.segs[i].text.s]))

get_video_transcript(r) ==
    IF r.kind = "raise" THEN PyStr(Placeholder)
    ELSE IF \E i \in 1..Len(r.segs) : r.segs[i].text = Absent
         THEN PyStr(Placeholder)
         ELSE PyStr(JoinStr(<<" ">>, [i \in 1..Len(r.segs) |-> r.segs[i].text.s]))

Segments == {[text |-> PyStr(<<"a">>)], [text |-> PyStr(<<"b">>)], [text |-> Absent]}

CaptionsReplies ==
    {Raise(e) : e \in {"NoTranscriptFound", "TranscriptsDisabled", "ConnectionError"}}
    \cup {[kind |-> "segments", segs |-> ss] : ss \in SeqsUpTo(Segments, MaxSegments)}

OneCaptionsReply == {Raise("TranscriptsDisabled")}

(* line 122 *)
MetadataGate_skipped == TRUE

MetadataGate == Truthy(video_metadata)

(* lines 120-129, 165-166 *)
GetTranscript(replies) ==
    /\ pc = "transcript"
    /\ \E r \in replies :
          /\ reply' = r
          /\ calls' = Append(calls, "get_video_transcript")
          /\ video_transcript' = get_video_transcript(r)
    /\ IF MetadataGate
       THEN pc' = "news" /\ UNCHANGED status
       ELSE Halt("MetadataNotFound")
    /\ UNCHANGED <<video_url, video_id, video_metadata, news_titles,
                   matching_news, ai_suggestions, new_title, new_description,
                   new_tags, response, update_body, clicked, offered>>

----------------------------------------------------------------------------
(* fetch_google_news, lines 49-56 *)

Min(a, b) == IF a < b THEN a ELSE b

fetch_google_news_no_slice(r) ==
    IF r.kind = "raise" THEN r
    ELSE IF r.articles # Absent
         THEN PyList([i \in 1..Len(r.articles.l) |-> r.articles.l[i].title])
         ELSE PyList(<<>>)

fetch_google_news(r) ==
    IF r.kind = "raise" THEN r
    ELSE IF r.articles # Absent
         THEN LET first == SubSeq(r.articles.l, 1, Min(Len(r.articles.l), MaxNews))
              IN PyList([i \in 1..Len(first) |-> first[i].title])
         ELSE PyList(<<>>)

Headlines == {<<"good">>, <<"news">>, <<"bad">>}

Articles == {[title |-> PyStr(h)] : h \in Headlines}

NewsReplies(n) ==
    {[kind |-> "json", articles |-> Absent]}
    \cup {[kind |-> "json", articles |-> PyList(as)] : as \in SeqsUpTo(Articles, n)}

RunNewsReplies == {Raise("ConnectionError")} \cup NewsReplies(RunMaxArticles)

(* lines 131-137, 163-164 *)
FetchNews(replies) ==
    /\ pc = "news"
    /\ \E r \in replies :
          /\ reply' = r
          /\ calls' = Append(calls, "fetch_google_news")
          /\ LET n == fetch_google_news(r)
             IN IF n.kind = "raise"
                THEN Crash(n.exc) /\ UNCHANGED news_titles
                ELSE /\ news_titles' = n
                     /\ IF Truthy(n)
                        THEN pc' = "similarity" /\ UNCHANGED status
                        ELSE Halt("NewsFetchEmpty")
    /\ UNCHANGED <<video_url, video_id, video_metadata, video_transcript,
                   matching_news, ai_suggestions, new_title, new_description,
                   new_tags, response, update_body, clicked, offered>>

----------------------------------------------------------------------------
(* check_similarity, lines 59-65 *)

(* TextBlob(t).sentiment.polarity of a headline, in hundredths, for a    *)
(* lexicon of three words                                               *)
polarity(t) ==
    CASE t = <<"good">> -> 20
      [] t = <<"bad">> -> -20
      [] OTHER -> 0

Abs(x) == IF x < 0 THEN -x ELSE x

RECURSIVE similarities(_, _)
similarities(content_polarity, titles) ==
    IF titles = <<>> THEN <<>>
    ELSE LET similarity_score == content_polarity - polarity(Head(titles).s)
         IN (IF Abs(similarity_score) < Threshold THEN <<Head(titles)>> ELSE <<>>)
            \o similarities(content_polarity, Tail(titles))

RECURSIVE similarities_inclusive(_, _)
similarities_inclusive(content_polarity, titles) ==
    IF titles = <<>> THEN <<>>
    ELSE LET similarity_score == content_polarity - polarity(Head(titles).s)
         IN (IF Abs(similarity_score) <= Threshold THEN <<Head(titles)>> ELSE <<>>)
            \o similarities_inclusive(content_polarity, Tail(titles))

check_similarity_inclusive(content_polarity, titles) ==
    PyList(similarities_inclusive(content_polarity, titles.l))

check_similarity(content_polarity, titles) ==
    PyList(similarities(content_polarity, titles.l))

ContentPolarities ==
    {-100, -40, -39, -20, -19, -1, 0, 1, 19, 20, 39, 40, 100}

RunContentPolarities == {-100, 0, 20}

(* lines 139-145, 161-162 *)
CheckSimilarity(polarities) ==
    /\ pc = "similarity"
    /\ \E c \in polarities :
          /\ reply' = [kind |-> "polarity", p |-> c]
          /\ calls' = Append(calls, "check_similarity")
          /\ matching_news' = check_similarity(c, news_titles)
    /\ IF Truthy(matching_news')
       THEN pc' = "suggest" /\ UNCHANGED status
       ELSE Halt("NoRelevantNews")
    /\ UNCHANGED <<video_url, video_id, video_metadata, video_transcript,
                   news_titles, ai_suggestions, new_title, new_description,
                   new_tags, response, update_body, clicked, offered>>

----------------------------------------------------------------------------
(* generate_openai_suggestions, lines 68-91 *)

(* json.loads of the completion's text: the value the text denotes, or   *)
(* JSONDecodeError when the text is no JSON document.                    *)
json_loads(content) ==
    IF content.valid THEN content.value ELSE Raise("JSONDecodeError")

generate_openai_suggestions(r) ==
    IF r.kind = "raise" THEN r
    ELSE IF r.kind = "nochoices" THEN None
    ELSE LET result == json_loads(r.content)
         IN IF result.kind = "raise" THEN None ELSE result

Text(v) == [valid |-> TRUE, value |-> v]

WellFormed == PyDict(PyStr(<<"A">>), PyStr(<<"B">>),
                     PyList(<<PyStr(<<"x">>), PyStr(<<"y">>)>>))

Contents ==
    { [valid |-> FALSE, value |-> None],
      Text(None),
      Text(PyDict(Absent, Absent, Absent)),
      Text(WellFormed),
      Text(PyDict(PyStr(<<"A">>), Absent, PyList(<<PyStr(<<"x">>)>>))),
      Text(PyDict(PyStr(<<"A">>), PyStr(<<"B">>), PyStr(<<"x", "y">>))),
      Text(PyDict(PyStr(<<"A">>), PyStr(<<"B">>), PyList(<<PyInt(1)>>))),
      Text(PyStr(<<"A">>)),
      Text(PyList(<<PyStr(<<"A">>)>>)),
      Text(PyInt(5)) }

ChatReplies ==
    {Raise("APIError"), [kind |-> "nochoices"]}
    \cup {[kind |-> "completion", content |-> c] : c \in Contents}

(* lines 147-150, 159-160 *)
GenerateSuggestions(replies) ==
    /\ pc = "suggest"
    /\ \E r \in replies :
          /\ reply' = r
          /\ calls' = Append(calls, "generate_openai_suggestions")
          /\ LET a == generate_openai_suggestions(r)
             IN IF a.kind = "raise"
                THEN Crash(a.exc) /\ UNCHANGED ai_suggestions
                ELSE /\ ai_suggestions' = a
                     /\ IF Truthy(a)
                        THEN pc' = "form" /\ UNCHANGED status
                        ELSE Halt("SuggestionParseFailure")
    /\ UNCHANGED <<video_url, video_id, video_metadata, video_transcript,
                   news_titles, matching_news, new_title, new_description,
                   new_tags, response, update_body, clicked, offered>>

----------------------------------------------------------------------------
(* The update form, lines 151-155 *)

(* ai_suggestions[key] *)
Subscript(v, key) ==
    IF v.kind # "dict" THEN Raise("TypeError")
    ELSE IF v.d[key] = Absent THEN Raise("KeyError")
    ELSE v.d[key]

(* ", ".join(v) *)
CommaJoin(v) ==
    CASE v.kind = "raise" -> v
      [] v.kind = "list" ->
           IF \A i \in 1..Len(v.l) : v.l[i].kind = "str"
           THEN PyStr(JoinStr(<<",", " ">>, [i \in 1..Len(v.l) |-> v.l[i].s]))
           ELSE Raise("TypeError")
      [] v.kind = "str" ->
           PyStr(JoinStr(<<",", " ">>, [i \in 1..Len(v.s) |-> <<v.s[i]>>]))
      [] OTHER -> Raise("TypeError")

(* what the operator has typed over a pre-filled field, if anything *)
Typed == {PyStr(<<"p", ",", "q">>)}

(* st.text_input / st.text_area: the pre-filled value or the operator's text *)
WidgetValues(default) == {default} \cup Typed

(* line 155: st.button is True in the run its press started *)
st_button_always == TRUE

st_button == clicked

RenderForm ==
    /\ pc = "form"
    /\ LET t == Subscript(ai_suggestions, "title")
           d == Subscript(ai_suggestions, "description")
           g == CommaJoin(Subscript(ai_suggestions, "tags"))
       IN IF t.kind = "raise"
          THEN Crash(t.exc) /\ UNCHANGED <<new_title, new_description, new_tags, offered>>
          ELSE IF d.kind = "raise"
          THEN /\ \E nt \in WidgetValues(t) : new_title' = nt
               /\ Crash(d.exc)
               /\ UNCHANGED <<new_description, new_tags, offered>>
          ELSE IF g.kind = "raise"
          THEN /\ \E nt \in WidgetValues(t) : new_title' = nt
               /\ \E nd \in WidgetValues(d) : new_description' = nd
               /\ Crash(g.exc)
               /\ UNCHANGED <<new_tags, offered>>
          ELSE /\ \E nt \in WidgetValues(t) : new_title' = nt
               /\ \E nd \in WidgetValues(d) : new_description' = nd
               /\ \E ng \in WidgetValues(g) : new_tags' = ng
               /\ offered' = TRUE
               /\ UNCHANGED status
               /\ pc' = IF st_button THEN "update" ELSE "done"
    /\ UNCHANGED <<video_url, video_id, video_metadata, video_transcript,
                   news_titles, matching_news, ai_suggestions, response,
                   update_body, reply, calls, clicked>>

----------------------------------------------------------------------------
(* update_video_metadata, lines 94-107 *)

(* s.split(",") *)
RECURSIVE Split(_)
Split(s) ==
    IF \A i \in 1..Len(s) : s[i] # ","
    THEN <<PyStr(s)>>
    ELSE LET i == CHOOSE k \in 1..Len(s) :
                      s[k] = "," /\ \A j \in 1..(k - 1) : s[j] # ","
         IN <<PyStr(SubSeq(s, 1, i - 1))>> \o Split(SubSeq(s, i + 1, Len(s)))

Body(id, title, description, tags) ==
    [id |-> id, title |-> title, description |-> description, tags |-> tags]

UpdateReplies ==
    { Raise("HttpError"),
      [kind |-> "json", body |-> PyDict(Absent, Absent, Absent)],
      [kind |-> "json", body |-> PyDict(PyStr(<<"id">>), Absent, Absent)] }

update_video_metadata(r) == IF r.kind = "raise" THEN r ELSE r.body

(* lines 155-158 *)
UpdateMetadata ==
    /\ pc = "update"
    /\ update_body' = Body(video_id, new_title, new_description,
                           PyList(Split(new_tags.s)))
    /\ \E r \in UpdateReplies :
          /\ reply' = r
          /\ calls' = Append(calls, "update_video_metadata")
          /\ LET u == update_video_metadata(r)
             IN IF u.kind = "raise"
                THEN Crash(u.exc) /\ UNCHANGED response
                ELSE /\ response' = u
                     /\ IF Truthy(u)
                        THEN Halt("UpdateSuccess")
                        ELSE pc' = "done" /\ UNCHANGED status
    /\ UNCHANGED <<video_url, video_id, video_metadata, video_transcript,
                   news_titles, matching_news, ai_suggestions, new_title,
                   new_description, new_tags, clicked, offered>>

----------------------------------------------------------------------------
(* Operator interactions with the rendered form: each reruns the script *)

(* line 155: the button is pressed *)
ClickUpdate ==
    /\ Ended
    /\ offered
    /\ StartRun(video_url, TRUE)

(* lines 151-153: a field of the form is edited *)
EditField ==
    /\ Ended
    /\ offered
    /\ StartRun(video_url, FALSE)

Next ==
    \/ Submit(RunURLs)
    \/ ExtractId
    \/ GetMetadata(ItemsReplies)
    \/ GetTranscript(CaptionsReplies)
    \/ FetchNews(RunNewsReplies)
    \/ CheckSimilarity(RunContentPolarities)
    \/ GenerateSuggestions(ChatReplies)
    \/ RenderForm
    \/ UpdateMetadata
    \/ ClickUpdate
    \/ EditField

Spec == Init /\ [][Next]_vars

----------------------------------------------------------------------------
(* Specifications of the single stages *)

FirstSubmit(urls) == pc = "idle" /\ Submit(urls)

NextExtract == FirstSubmit(URLs) \/ ExtractId

SpecExtract == Init /\ [][NextExtract]_vars

OneURL == {<<"?", "v", "=", "a", "&", "b">>}

NextNews ==
    \/ FirstSubmit(OneURL)
    \/ ExtractId
    \/ GetMetadata(OneItemsReply)
    \/ GetTranscript(OneCaptionsReply)
    \/ FetchNews(NewsReplies(MaxArticles))
    \/ CheckSimilarity(ContentPolarities)

SpecNews == Init /\ [][NextNews]_vars
----------------------------------------------------------------------------
(* Properties *)

Order == <<"extract_video_id", "get_video_metadata", "get_video_transcript",
           "fetch_google_news", "check_similarity",
           "generate_openai_suggestions", "update_video_metadata">>

Invoked(f) == \E i \in 1..Len(calls) : calls[i] = f

LastCall == IF calls = <<>> THEN "none" ELSE calls[Len(calls)]

Assigned(v) == v # Unbound

InOrder == Len(calls) <= Len(Order) /\ calls = SubSeq(Order, 1, Len(calls))

(* every gated result a stage rests on was usable when the stage was invoked *)
GatedStages ==
    /\ Invoked("get_video_metadata") => Truthy(video_id)
    /\ Invoked("get_video_transcript") => Truthy(video_id)
    /\ Invoked("fetch_google_news") => Truthy(video_id) /\ Truthy(video_metadata)
    /\ Invoked("check_similarity") => Truthy(news_titles)
    /\ Invoked("generate_openai_suggestions") => Truthy(matching_news)
    /\ Invoked("update_video_metadata") => Truthy(ai_suggestions)

(* a failed gate ends the run with its status, and nothing later is invoked *)
FailedGateEnds ==
    /\ (Assigned(video_id) /\ ~Truthy(video_id)) =>
          /\ calls = <<"extract_video_id">>
          /\ pc = "done" /\ status = "InvalidURL"
    /\ (Assigned(video_metadata) /\ ~Truthy(video_metadata)) =>
          /\ ~\E i \in 4..7 : Invoked(Order[i])
          /\ \/ pc = "transcript"
             \/ pc = "done" /\ status = "MetadataNotFound"
    /\ (Assigned(news_titles) /\ ~Truthy(news_titles)) =>
          /\ LastCall = "fetch_google_news"
          /\ pc = "done" /\ status = "NewsFetchEmpty"
    /\ (Assigned(matching_news) /\ ~Truthy(matching_news)) =>
          /\ LastCall = "check_similarity"
          /\ pc = "done" /\ status = "NoRelevantNews"
    /\ (Assigned(ai_suggestions) /\ ~Truthy(ai_suggestions)) =>
          /\ LastCall = "generate_openai_suggestions"
          /\ pc = "done" /\ status = "SuggestionParseFailure"

(* C1, as stated: the stages of a run are invoked in the fixed order, a    *)
(* stage is invoked only if every earlier stage produced a usable          *)
(* (non-empty, non-null) result, and a failed gate ends the run with a     *)
(* terminal status and with no later stage invoked.                        *)
C1_AsStated ==
    /\ InOrder
    /\ GatedStages
    /\ Invoked("get_video_transcript") => Truthy(video_metadata)
    /\ Invoked("fetch_google_news") => Truthy(video_transcript)
    /\ FailedGateEnds

(* C1, amended: the stages of a run are invoked in the fixed order, each   *)
(* at most once; transcript retrieval is invoked whenever an identifier    *)
(* was extracted, whatever metadata retrieval returned, and its own result *)
(* is not gated; every other stage is invoked only if each gated earlier   *)
(* result (identifier, metadata, news list, relevant headlines,            *)
(* suggestion) was usable; a failed gate ends the run with its terminal    *)
(* status and with no later stage invoked.                                 *)
C1_StagesInOrderAndGated ==
    /\ InOrder
    /\ GatedStages
    /\ FailedGateEnds

C1_Witness ==
    /\ Invoked("get_video_transcript")
    /\ video_metadata = None
    /\ pc = "done"
    /\ status = "MetadataNotFound"

(* The two patterns of line 21, stated on positions of the URL *)
QueryAt(u, i) ==
    /\ i \in 3..Len(u)
    /\ u[i - 2] = "v" /\ u[i - 1] = "="
    /\ u[i] \notin {"&", "#"}

ShortAt(u, i) ==
    /\ i \in 10..Len(u)
    /\ SubSeq(u, i - 9, i - 5) = <<"y", "o", "u", "t", "u">>
    /\ u[i - 4] # "\n"
    /\ SubSeq(u, i - 3, i - 1) = <<"b", "e", "/">>
    /\ u[i] \notin {"&", "#"}

(* the segment that starts at i and runs up to the next & or # *)
SegmentFrom(u, i) ==
    LET j == CHOOSE j \in i..Len(u) :
                 /\ \A k \in i..j : u[k] \notin {"&", "#"}
                 /\ j = Len(u) \/ u[j + 1] \in {"&", "#"}
    IN SubSeq(u, i, j)

(* C2: a URL that matches neither pattern ends the run at the first stage *)
(* with the InvalidURL status, and no other function is invoked: no call  *)
(* goes out to the platform, captions, news or chat-completion API.       *)
C2_InvalidURLHaltsWithoutCalls ==
    (/\ Invoked("extract_video_id")
     /\ ~\E i \in 1..Len(video_url) : QueryAt(video_url, i) \/ ShortAt(video_url, i))
    => /\ video_id = None
       /\ pc = "done"
       /\ status = "InvalidURL"
       /\ calls = <<"extract_video_id">>
       /\ reply = Unbound
       /\ update_body = Unbound

C2_Witness ==
    /\ video_url = <<"x", "/", "a">>
    /\ calls = <<"extract_video_id">>
    /\ status = "InvalidURL"

(* C3: a platform response without items (missing or empty list) makes    *)
(* get_video_metadata return None, and a run whose metadata is None ends  *)
(* with the metadata-not-found status without invoking news discovery,    *)
(* relevance filtering, suggestion generation or the update.              *)
C3_NoItemsHaltsBeforeNews ==
    /\ (/\ LastCall = "get_video_metadata"
        /\ reply.kind = "json"
        /\ (reply.items = Absent \/ reply.items.l = <<>>))
       => video_metadata = None /\ pc = "transcript"
    /\ video_metadata = None =>
          /\ ~Invoked("fetch_google_news")
          /\ ~Invoked("check_similarity")
          /\ ~Invoked("generate_openai_suggestions")
          /\ ~Invoked("update_video_metadata")
          /\ \/ pc = "transcript"
             \/ pc = "done" /\ status = "MetadataNotFound"

C3_Witness ==
    /\ video_metadata = None
    /\ LastCall = "get_video_transcript"
    /\ pc = "done"
    /\ status = "MetadataNotFound"

CaptionsFailed(r) ==
    \/ r.kind = "raise"
    \/ \E i \in 1..Len(r.segs) : r.segs[i].text = Absent

(* s is the one-word texts of segs with one space between neighbours *)
SpaceJoined(s, segs) ==
    /\ Len(s) = IF segs = <<>> THEN 0 ELSE 2 * Len(segs) - 1
    /\ \A i \in 1..Len(segs) : s[2 * i - 1] = segs[i].text.s[1]
    /\ \A i \in 1..(Len(segs) - 1) : s[2 * i] = " "

(* C4: transcript retrieval never raises: every failure of the captions   *)
(* lookup yields the placeholder, a success yields the segments' texts    *)
(* joined by single spaces in order, and in both cases the run goes on to *)
(* the metadata gate, which alone decides whether it continues.           *)
C4_TranscriptNeverAborts ==
    LastCall = "get_video_transcript" =>
       /\ IF CaptionsFailed(reply)
          THEN video_transcript = PyStr(<<"Transcript not available.">>)
          ELSE /\ video_transcript.kind = "str"
               /\ SpaceJoined(video_transcript.s, reply.segs)
       /\ IF Truthy(video_metadata)
          THEN pc = "news" /\ status = "none"
          ELSE pc = "done" /\ status = "MetadataNotFound"

C4_Witness ==
    /\ LastCall = "get_video_transcript"
    /\ reply.kind = "raise"
    /\ video_transcript = PyStr(<<"Transcript not available.">>)
    /\ pc = "news"

(* the text is a JSON object with the keys title, description and tags,   *)
(* the first two strings and the last a list of strings                   *)
ExpectedShape(c) ==
    /\ c.valid
    /\ c.value.kind = "dict"
    /\ c.value.d.title.kind = "str"
    /\ c.value.d.description.kind = "str"
    /\ c.value.d.tags.kind = "list"
    /\ \A i \in 1..Len(c.value.d.tags.l) : c.value.d.tags.l[i].kind = "str"

(* C5: a model response that is not JSON of the expected shape yields no  *)
(* suggestion, and the run shows the suggestion-failure status without    *)
(* crashing and without offering the update; a well-formed response       *)
(* yields exactly its three fields.                                       *)
C5_MalformedYieldsNoSuggestion ==
    (LastCall = "generate_openai_suggestions" /\ reply.kind = "completion") =>
       IF ExpectedShape(reply.content)
       THEN ai_suggestions = reply.content.value /\ pc # "crashed"
       ELSE /\ ~Truthy(ai_suggestions)
            /\ pc = "done"
            /\ status = "SuggestionParseFailure"
            /\ ~offered

UpdateFailed(r) == r.kind = "raise" \/ ~Truthy(r.body)

(* C6: a failed update is reported to the operator as an update failure   *)
(* and leaves the identifier and the edited fields of the run in place.   *)
C6_UpdateFailureReported ==
    (LastCall = "update_video_metadata" /\ UpdateFailed(reply)) =>
       /\ status = "UpdateFailure"
       /\ Truthy(video_id)
       /\ update_body = Body(video_id, new_title, new_description,
                             update_body.tags)
       /\ offered

(* C7: extract_video_id returns the segment after the leftmost "v=" that  *)
(* is followed by a character other than & and #, up to the next & or #;  *)
(* failing that, the segment after the leftmost "youtu.be/" (its dot      *)
(* matching any character), likewise; and None when neither occurs.       *)
C7_ExtractReturnsSegment ==
    Invoked("extract_video_id") =>
       LET u == video_url
           Q == {i \in 1..Len(u) : QueryAt(u, i)}
           S == {i \in 1..Len(u) : ShortAt(u, i)}
       IN IF Q # {}
          THEN video_id = PyStr(SegmentFrom(u, CHOOSE i \in Q : \A k \in Q : i <= k))
          ELSE IF S # {}
          THEN video_id = PyStr(SegmentFrom(u, CHOOSE i \in S : \A k \in S : i <= k))
          ELSE video_id = None

C7_Witness ==
    /\ Invoked("extract_video_id")
    /\ \E i, j \in 1..Len(video_url) :
          /\ ShortAt(video_url, j)
          /\ QueryAt(video_url, i)
          /\ j < i
          /\ video_id = PyStr(<<video_url[i]>>)

Relevant(c, t) == -20 < c - polarity(t.s) /\ c - polarity(t.s) < 20

(* C8: check_similarity returns the headlines, in their order and with    *)
(* duplicates, whose polarity is strictly less than 0.2 away from the     *)
(* content's, in either direction.                                        *)
C8_SimilarityIsStrictFilter ==
    LastCall = "check_similarity" =>
       matching_news =
          PyList(SelectSeq(news_titles.l, LAMBDA t : Relevant(reply.p, t)))

C8_Witness ==
    /\ LastCall = "check_similarity"
    /\ \E i \in 1..Len(news_titles.l) :
          reply.p - polarity(news_titles.l[i].s) = 20
    /\ \E i \in 1..Len(news_titles.l) :
          polarity(news_titles.l[i].s) - reply.p = 20
    /\ \E i, j \in 1..Len(matching_news.l) :
          i < j /\ matching_news.l[i] = matching_news.l[j]

(* C9: fetch_google_news returns the titles of the first min(5, n)        *)
(* articles in the order of the response, duplicates included, and the    *)
(* empty list when the articles field is missing or empty; an empty list  *)
(* ends the run with the no-news status before relevance filtering.       *)
C9_FirstFiveTitles ==
    /\ (LastCall = "fetch_google_news" /\ reply.kind = "json") =>
          LET n == IF reply.articles = Absent THEN 0 ELSE Len(reply.articles.l)
          IN /\ news_titles.kind = "list"
             /\ Len(news_titles.l) = IF n < 5 THEN n ELSE 5
             /\ \A i \in 1..Len(news_titles.l) :
                   news_titles.l[i] = reply.articles.l[i].title
    /\ news_titles = PyList(<<>>) =>
          /\ pc = "done"
          /\ status = "NewsFetchEmpty"
          /\ ~Invoked("check_similarity")

C9_Witness ==
    /\ LastCall = "fetch_google_news"
    /\ reply.kind = "json"
    /\ reply.articles # Absent
    /\ Len(reply.articles.l) = 6
    /\ Len(news_titles.l) = 5
    /\ news_titles.l[1] = news_titles.l[2]

(* C10: the update is called at most once in a run, only after every gate *)
(* of the run has passed and the button was pressed, and for the          *)
(* identifier extracted in that run.                                      *)
C10_UpdateOnlyAfterAllGates ==
    /\ Cardinality({i \in 1..Len(calls) : calls[i] = "update_video_metadata"}) <= 1
    /\ Assigned(update_body) <=> Invoked("update_video_metadata")
    /\ Invoked("update_video_metadata") =>
          /\ Truthy(video_id)
          /\ Truthy(video_metadata)
          /\ Truthy(news_titles)
          /\ Truthy(matching_news)
          /\ Truthy(ai_suggestions)
          /\ clicked
          /\ update_body.id = video_id
          /\ \E i \in 1..Len(video_url) :
                (QueryAt(video_url, i) \/ ShortAt(video_url, i))
                /\ video_id = PyStr(SegmentFrom(video_url, i))

C10_Witness ==
    /\ Invoked("update_video_metadata")
    /\ status = "UpdateSuccess"
    /\ update_body.id = video_id
====
